---- MODULE Spec2Model ----
(***************************************************************************)
(* Model of the blinkstick crate: the library (src/src/lib.rs) and the     *)
(* command line client (src/src/main.rs).                                  *)
(*                                                                         *)
(* The state is the USB bus as the enumeration sees it, the one Session    *)
(* (BlinkStick) the running program may own, the position of the program,  *)
(* and `log`, the sequence of calls the program has issued to the USB      *)
(* stack (rusb) and to the clock, in program order.                        *)
(*                                                                         *)
(* Strings the code inspects character by character (color tokens, hex     *)
(* strings) are sequences of one-character strings.                        *)
(***************************************************************************)
EXTENDS Integers, Sequences, FiniteSets

VARIABLES
    bus,        \* the attached devices, in the USB stack's enumeration order
    cmd,        \* the program being run and its arguments
    pc,         \* the position of the program
    session,    \* the BlinkStick value the program owns, if any
    log,        \* the calls issued so far, in order
    issued,     \* the calls the last operation issued
    result,     \* the result of the last library operation
    exit,       \* how the process ended: "running", "ok", "error", "panic"
    color,      \* main's `color` local once parse_color has returned
    devices,    \* main's `devices` local (List): the result of find_all
    i,          \* the loop index of the running loop (List, pulse)
    serial,     \* main's `serial` local (List, Info)
    report1,    \* the device's feature report 1, as GET_REPORT returns it
    hex_in,     \* the argument of from_hex
    hex_out     \* what from_hex returned

vars == <<bus, cmd, pc, session, log, issued, result, exit, color, devices, i,
          serial, report1, hex_in, hex_out>>

----------------------------------------------------------------------------
(* Program constants                                                       *)

BLINKSTICK_VENDOR_ID == 8352        \* 0x20A0
BLINKSTICK_PRODUCT_ID == 16869      \* 0x41E5
REPORT_ID_1 == 1
REPORT_ID_2 == 2
REPORT_ID_3 == 3
U8 == 256                           \* `as u8` keeps a value modulo 2^8

(* Bounds of the model                                                     *)

MaxDevices == 2     \* devices on the bus
MaxSteps == 3       \* largest `steps` argument of pulse
MaxHexLen == 8      \* longest string handed to from_hex
MaxOps == 2         \* library calls a library client makes on one Session
MaxLeds == 2        \* longest LED list, short of the lists at the edge of a byte

----------------------------------------------------------------------------
(* Values                                                                  *)

RgbColor(r, g, b) == [r |-> r, g |-> g, b |-> b]

Some(c) == [some |-> TRUE, val |-> c]
None == [some |-> FALSE, val |-> RgbColor(0, 0, 0)]

\* One call to the USB stack (or to thread::sleep), as recorded in `log`.
Call(name, d, data, ok) == [call |-> name, dev |-> d, data |-> data, ok |-> ok]

\* The result of a library operation: Ok(..) or Err(kind), with the value of
\* the operations that return one.
Res(op, ok, err) ==
    [op |-> op, ok |-> ok, err |-> err, dev |-> 0,
     color |-> RgbColor(0, 0, 0), devs |-> <<>>, serial |-> "-"]

NoResult == Res("none", TRUE, "none")

NoSession == [dev |-> 0, state |-> "none"]

----------------------------------------------------------------------------
(* Color model: RgbColor::from_hex (lib.rs 213-227)                        *)

HexDigits ==
    <<"0", "1", "2", "3", "4", "5", "6", "7", "8", "9",
      "a", "b", "c", "d", "e", "f">>
HexDigitsUpper ==
    <<"0", "1", "2", "3", "4", "5", "6", "7", "8", "9",
      "A", "B", "C", "D", "E", "F">>

\* char::to_digit(16): the digit's value, or -1 for a character that is none.
to_digit(c) ==
    IF \E k \in 1..16 : HexDigits[k] = c
    THEN (CHOOSE k \in 1..16 : HexDigits[k] = c) - 1
    ELSE IF \E k \in 1..16 : HexDigitsUpper[k] = c
    THEN (CHOOSE k \in 1..16 : HexDigitsUpper[k] = c) - 1
    ELSE -1

\* str::trim_start_matches('#'): every leading '#' is removed.
RECURSIVE trim_start_matches(_)
trim_start_matches(s) ==
    IF s # <<>> /\ Head(s) = "#" THEN trim_start_matches(Tail(s)) ELSE s

RECURSIVE digits_value(_, _)
digits_value(s, acc) ==
    IF s = <<>> THEN acc
    ELSE IF to_digit(Head(s)) < 0 THEN -1
    ELSE digits_value(Tail(s), acc * 16 + to_digit(Head(s)))

\* u32::from_str_radix(s, 16): -1 stands for Err. An empty string, a lone
\* sign and any non-digit are errors; one leading '+' is accepted, and a
\* leading '-' is not (the type is unsigned).
from_str_radix(s) ==
    IF s = <<>> THEN -1
    ELSE IF Len(s) = 1 /\ Head(s) \in {"+", "-"} THEN -1
    ELSE IF Head(s) = "+" THEN digits_value(Tail(s), 0)
    ELSE digits_value(s, 0)

from_hex(str) ==
    LET hex == trim_start_matches(str)
        val == from_str_radix(hex)
    IN  IF Len(hex) = 6 /\ val >= 0
        THEN Some(RgbColor((val \div 65536) % 256, (val \div 256) % 256, val % 256))
        ELSE None

----------------------------------------------------------------------------
(* Color model: RgbColor::from_name (lib.rs 67-211), parse_color           *)
(* (main.rs 64-81)                                                         *)

UpperLetters ==
    <<"A", "B", "C", "D", "E", "F", "G", "H", "I", "J", "K", "L", "M",
      "N", "O", "P", "Q", "R", "S", "T", "U", "V", "W", "X", "Y", "Z">>
LowerLetters ==
    <<"a", "b", "c", "d", "e", "f", "g", "h", "i", "j", "k", "l", "m",
      "n", "o", "p", "q", "r", "s", "t", "u", "v", "w", "x", "y", "z">>

to_lowercase(s) ==
    [k \in 1..Len(s) |->
        IF \E n \in 1..26 : UpperLetters[n] = s[k]
        THEN LowerLetters[CHOOSE n \in 1..26 : UpperLetters[n] = s[k]]
        ELSE s[k]]

\* The rows of the name table that the tokens of this model can select; every
\* other token of the model is in no row of the table. `rnd` is the color
\* RgbColor::random() draws.
from_name(name, rnd) ==
    LET n == to_lowercase(name)
    IN  IF n = <<"b", "l", "a", "c", "k">> \/ n = <<"o", "f", "f">>
            THEN Some(RgbColor(0, 0, 0))
        ELSE IF n = <<"g", "r", "e", "e", "n">> THEN Some(RgbColor(0, 128, 0))
        ELSE IF n = <<"o", "r", "a", "n", "g", "e">> THEN Some(RgbColor(255, 165, 0))
        ELSE IF n = <<"r", "e", "d">> THEN Some(RgbColor(255, 0, 0))
        ELSE IF n = <<"r", "a", "n", "d", "o", "m">> THEN Some(rnd)
        ELSE None

\* parse_color: the name, then the hex form, then the keyword "random".
parse_color(color_str, rnd) ==
    IF from_name(color_str, rnd).some
        THEN [ok |-> TRUE, val |-> from_name(color_str, rnd).val]
    ELSE IF from_hex(color_str).some
        THEN [ok |-> TRUE, val |-> from_hex(color_str).val]
    ELSE IF to_lowercase(color_str) = <<"r", "a", "n", "d", "o", "m">>
        THEN [ok |-> TRUE, val |-> rnd]
    ELSE [ok |-> FALSE, val |-> RgbColor(0, 0, 0)]

----------------------------------------------------------------------------
(* Report codec (lib.rs 279-316, 350-361): the bytes each operation hands  *)
(* to send_feature_report. An operation that issues no transfer has no     *)
(* report: <<>>.                                                           *)

set_color_data(c) == <<REPORT_ID_1, c.r, c.g, c.b>>

\* Mutant of set_color_indexed: no special case for the first LED.
set_color_indexed_data_always_report2(index, c) ==
    <<REPORT_ID_2, index, c.g, c.r, c.b>>

set_color_indexed_data(index, c) ==
    IF index = 0
    THEN set_color_data(c)
    ELSE <<REPORT_ID_2, index, c.g, c.r, c.b>>

\* The loop of set_colors: r, g, b of each LED, in list order.
led_bytes(leds) ==
    [k \in 1..(3 * Len(leds)) |->
        LET led == leds[((k - 1) \div 3) + 1]
        IN  IF (k - 1) % 3 = 0 THEN led.r
            ELSE IF (k - 1) % 3 = 1 THEN led.g
            ELSE led.b]

\* Mutant of set_colors: no early return for the empty list.
set_colors_data_sends_empty(channel, leds) ==
    IF Len(leds) = 1 THEN set_color_data(leds[1])
    ELSE <<REPORT_ID_3, channel, 0, Len(leds) % U8>> \o led_bytes(leds)

\* Mutant of set_colors: no single LED path.
set_colors_data_always_report3(channel, leds) ==
    IF Len(leds) = 0 THEN <<>>
    ELSE <<REPORT_ID_3, channel, 0, Len(leds) % U8>> \o led_bytes(leds)

set_colors_data(channel, leds) ==
    IF Len(leds) = 0 THEN <<>>
    ELSE IF Len(leds) = 1 THEN set_color_data(leds[1])
    ELSE <<REPORT_ID_3, channel, 0, Len(leds) % U8>> \o led_bytes(leds)

\* get_color: the color read out of the 4 bytes GET_REPORT filled in.
get_color_decode(data) == RgbColor(data[2 + 1], data[1 + 1], data[3 + 1])

----------------------------------------------------------------------------
(* Single precision arithmetic of pulse (lib.rs 324-328, 336-340).         *)
(* An f32 is [m, e], the value m * 2^e with m < 2^24 + 1; every operation  *)
(* rounds to 24 significant bits, to nearest, ties to even. The integers   *)
(* stay below 2^31 for steps < 128.                                        *)

F32(m, e) == [m |-> m, e |-> e]

\* The least d >= the given one with n < width * 2^d: the low bits to drop.
RECURSIVE excess_bits(_, _, _)
excess_bits(n, width, d) ==
    IF n < width * (2 ^ d) THEN d ELSE excess_bits(n, width, d + 1)

\* q plus one when the dropped part r, of `half * 2` units, rounds up.
round_even(q, r, half) ==
    IF r > half \/ (r = half /\ q % 2 = 1) THEN q + 1 ELSE q

\* n * 2^e for an integer n < 2^31, rounded.
f32_round(n, e) ==
    IF n < 16777216 THEN F32(n, e)
    ELSE LET d == IF n < 1073741824 THEN excess_bits(n, 16777216, 1) ELSE 7
         IN  F32(round_even(n \div (2 ^ d), n % (2 ^ d), 2 ^ (d - 1)), e + d)

\* The least k with a * 2^k >= b * 2^23.
RECURSIVE div_shift(_, _, _)
div_shift(a, b, k) ==
    IF a * (2 ^ k) >= b * 8388608 THEN k ELSE div_shift(a, b, k + 1)

\* a as f32 / b as f32, for integers 0 <= a <= b, 0 < b.
f32_div(a, b) ==
    IF a = 0 THEN F32(0, 0)
    ELSE LET k == div_shift(a, b, 0)
             n == a * (2 ^ k)
             q == n \div b
             r == n % b
         IN  F32(IF 2 * r > b \/ (2 * r = b /\ q % 2 = 1) THEN q + 1 ELSE q, 0 - k)

\* 1.0 - f, for 0 <= f <= 1.
f32_one_minus(f) ==
    IF f.m = 0 THEN F32(1, 0)
    ELSE f32_round((2 ^ (0 - f.e)) - f.m, f.e)

\* c as f32 * f, for a byte c. The product c * f.m can take 32 bits: it is
\* held as Q * 4096 + R.
f32_mul(c, f) ==
    LET A == c * (f.m \div 4096)
        B == c * (f.m % 4096)
        Q == A + (B \div 4096)
        R == B % 4096
    IN  IF Q < 4096 THEN F32(Q * 4096 + R, f.e)
        ELSE LET d == excess_bits(Q, 4096, 1)
             IN  F32(round_even(Q * (2 ^ (12 - d)) + (R \div (2 ^ d)),
                                R % (2 ^ d), 2 ^ (d - 1)),
                     f.e + d)

\* f as u8: truncation toward zero, saturating at 255.
f32_as_u8(f) ==
    LET v == IF f.e >= 0 THEN f.m * (2 ^ f.e)
             ELSE IF 0 - f.e >= 31 THEN 0
             ELSE f.m \div (2 ^ (0 - f.e))
    IN  IF v > 255 THEN 255 ELSE v

scale(c, factor) ==
    RgbColor(f32_as_u8(f32_mul(c.r, factor)),
             f32_as_u8(f32_mul(c.g, factor)),
             f32_as_u8(f32_mul(c.b, factor)))

\* The color of step i of the fade-in and of the fade-out.
fade_in_color(c, i_, steps) == scale(c, f32_div(i_, steps))

\* Mutant of fade_out_color: the fade-out goes down to factor 0, step i
\* being scaled by 1 - (i + 1) / steps.
fade_out_color_down_to_zero(c, i_, steps) ==
    scale(c, f32_one_minus(f32_div(i_ + 1, steps)))

fade_out_color(c, i_, steps) == scale(c, f32_one_minus(f32_div(i_, steps)))

----------------------------------------------------------------------------
(* Device directory (lib.rs 236-262) and Session::open (lib.rs 265-276).   *)
(* Each operation is given the outcomes the USB stack chooses and yields   *)
(* the calls it issues, in order, and its result.                          *)

Device(vid, pid, descriptor) ==
    [vendor_id |-> vid, product_id |-> pid, descriptor |-> descriptor]

\* Mutant of the filter of find_all: either id is enough.
is_blinkstick_either_id(d) ==
    d.vendor_id = BLINKSTICK_VENDOR_ID \/ d.product_id = BLINKSTICK_PRODUCT_ID

is_blinkstick(d) ==
    d.vendor_id = BLINKSTICK_VENDOR_ID /\ d.product_id = BLINKSTICK_PRODUCT_ID

\* The loop of find_all from device k on: a descriptor that cannot be read
\* ends it with an error.
RECURSIVE find_all_scan(_, _, _, _)
find_all_scan(b, k, calls, found) ==
    IF k > Len(b)
    THEN [calls |-> calls,
          res |-> [Res("find_all", TRUE, "none") EXCEPT !.devs = found]]
    ELSE IF ~b[k].descriptor
    THEN [calls |-> Append(calls, Call("device_descriptor", k, <<>>, FALSE)),
          res |-> Res("find_all", FALSE, "DeviceDescriptorError")]
    ELSE find_all_scan(b, k + 1,
                       Append(calls, Call("device_descriptor", k, <<>>, TRUE)),
                       IF is_blinkstick(b[k]) THEN Append(found, k) ELSE found)

\* ctx: "ok", or the call that fails: "context_new", "devices".
find_all(b, ctx) ==
    IF ctx = "context_new"
    THEN [calls |-> <<Call("context_new", 0, <<>>, FALSE)>>,
          res |-> Res("find_all", FALSE, "rusb::Error")]
    ELSE IF ctx = "devices"
    THEN [calls |-> <<Call("context_new", 0, <<>>, TRUE),
                      Call("devices", 0, <<>>, FALSE)>>,
          res |-> Res("find_all", FALSE, "rusb::Error")]
    ELSE find_all_scan(b, 1, <<Call("context_new", 0, <<>>, TRUE),
                               Call("devices", 0, <<>>, TRUE)>>, <<>>)

\* What the log keeps of kernel_driver_active(0): its answer, 1 for an
\* active driver and 0 for none, and nothing when the query itself fails.
kernel_driver_answer(kda, fail) ==
    IF fail = "kernel_driver_active" THEN <<>>
    ELSE IF kda THEN <<1>> ELSE <<0>>

\* Mutant of open: a failed claim reported as a failure to open the device.
open_claim_failure_as_open_failure(d, kda, fail) ==
    LET pre == IF kda
               THEN <<Call("open", d, <<>>, TRUE),
                      Call("kernel_driver_active", d, <<1>>, TRUE),
                      Call("detach_kernel_driver", d, <<>>, TRUE)>>
               ELSE <<Call("open", d, <<>>, TRUE),
                      Call("kernel_driver_active", d, <<0>>, TRUE)>>
    IN  IF fail = "claim_interface"
        THEN [calls |-> pre \o <<Call("set_active_configuration", d, <<1>>, TRUE),
                                 Call("claim_interface", d, <<0>>, FALSE)>>,
              res |-> Res("open", FALSE, "OpenDeviceError")]
        ELSE [calls |-> pre \o <<Call("set_active_configuration", d, <<1>>, TRUE),
                                 Call("claim_interface", d, <<0>>, TRUE)>>,
              res |-> [Res("open", TRUE, "none") EXCEPT !.dev = d]]

\* Mutant of open: the interface is claimed before the configuration is set.
open_claims_before_configuration(d, kda, fail) ==
    LET c_open == Call("open", d, <<>>, fail # "open")
        c_kda == Call("kernel_driver_active", d, kernel_driver_answer(kda, fail),
                      fail # "kernel_driver_active")
        c_detach == Call("detach_kernel_driver", d, <<>>, fail # "detach_kernel_driver")
        c_conf == Call("set_active_configuration", d, <<1>>,
                       fail # "set_active_configuration")
        c_claim == Call("claim_interface", d, <<0>>, fail # "claim_interface")
        pre == IF kda THEN <<c_open, c_kda, c_detach>> ELSE <<c_open, c_kda>>
    IN  IF fail = "open"
        THEN [calls |-> <<c_open>>, res |-> Res("open", FALSE, "OpenDeviceError")]
        ELSE IF fail = "kernel_driver_active"
        THEN [calls |-> <<c_open, c_kda>>, res |-> Res("open", FALSE, "rusb::Error")]
        ELSE IF kda /\ fail = "detach_kernel_driver"
        THEN [calls |-> pre, res |-> Res("open", FALSE, "rusb::Error")]
        ELSE IF fail = "claim_interface"
        THEN [calls |-> Append(pre, c_claim),
              res |-> Res("open", FALSE, "ClaimInterfaceError")]
        ELSE IF fail = "set_active_configuration"
        THEN [calls |-> pre \o <<c_claim, c_conf>>,
              res |-> Res("open", FALSE, "SetConfigurationError")]
        ELSE [calls |-> pre \o <<c_claim, c_conf>>,
              res |-> [Res("open", TRUE, "none") EXCEPT !.dev = d]]

\* kda: what kernel_driver_active(0) answers; fail: "none", or the call that
\* fails.
open(d, kda, fail) ==
    LET c_open == Call("open", d, <<>>, fail # "open")
        c_kda == Call("kernel_driver_active", d, kernel_driver_answer(kda, fail),
                      fail # "kernel_driver_active")
        c_detach == Call("detach_kernel_driver", d, <<>>, fail # "detach_kernel_driver")
        c_conf == Call("set_active_configuration", d, <<1>>,
                       fail # "set_active_configuration")
        c_claim == Call("claim_interface", d, <<0>>, fail # "claim_interface")
        pre == IF kda THEN <<c_open, c_kda, c_detach>> ELSE <<c_open, c_kda>>
    IN  IF fail = "open"
        THEN [calls |-> <<c_open>>, res |-> Res("open", FALSE, "OpenDeviceError")]
        ELSE IF fail = "kernel_driver_active"
        THEN [calls |-> <<c_open, c_kda>>, res |-> Res("open", FALSE, "rusb::Error")]
        ELSE IF kda /\ fail = "detach_kernel_driver"
        THEN [calls |-> pre, res |-> Res("open", FALSE, "rusb::Error")]
        ELSE IF fail = "set_active_configuration"
        THEN [calls |-> Append(pre, c_conf),
              res |-> Res("open", FALSE, "SetConfigurationError")]
        ELSE IF fail = "claim_interface"
        THEN [calls |-> pre \o <<c_conf, c_claim>>,
              res |-> Res("open", FALSE, "ClaimInterfaceError")]
        ELSE [calls |-> pre \o <<c_conf, c_claim>>,
              res |-> [Res("open", TRUE, "none") EXCEPT !.dev = d]]

find_first(b, ctx, kda, fail) ==
    LET fa == find_all(b, ctx)
    IN  IF ~fa.res.ok
        THEN [calls |-> fa.calls, res |-> Res("find_first", FALSE, fa.res.err)]
        ELSE IF fa.res.devs = <<>>
        THEN [calls |-> fa.calls, res |-> Res("find_first", FALSE, "NoDeviceFound")]
        ELSE [calls |-> fa.calls \o open(fa.res.devs[1], kda, fail).calls,
              res |-> [open(fa.res.devs[1], kda, fail).res EXCEPT !.op = "find_first"]]

----------------------------------------------------------------------------
(* Transfers (lib.rs 364-417) and Drop (lib.rs 420-424)                    *)

\* send_feature_report: one SET_REPORT control transfer carrying `data`.
send_feature_report(op, d, data, ok) ==
    [calls |-> <<Call("write_control", d, data, ok)>>,
     res |-> IF ok THEN Res(op, TRUE, "none")
             ELSE Res(op, FALSE, "ControlTransferError")]

\* An operation of the codec: no transfer when it has no report to send.
send(op, d, data, ok) ==
    IF data = <<>>
    THEN [calls |-> <<>>, res |-> Res(op, TRUE, "none")]
    ELSE send_feature_report(op, d, data, ok)

\* get_color: one GET_REPORT transfer for report 1 into a 4-byte buffer;
\* `report` is what the device answers.
get_color(d, report, ok) ==
    [calls |-> <<Call("read_control", d, <<REPORT_ID_1, 0, 0, 0>>, ok)>>,
     res |-> IF ok
             THEN [Res("get_color", TRUE, "none") EXCEPT !.color = get_color_decode(report)]
             ELSE Res("get_color", FALSE, "ControlTransferError")]

\* get_serial: one GET_DESCRIPTOR transfer for string 3. outcome: "ok",
\* "transfer" (the transfer fails), "short" (2 bytes or fewer come back),
\* "utf16" (the bytes are no UTF-16 text).
get_serial(d, outcome) ==
    [calls |-> <<Call("read_descriptor", d, <<3>>, outcome # "transfer")>>,
     res |-> IF outcome = "transfer" THEN Res("get_serial", FALSE, "rusb::Error")
             ELSE IF outcome = "short" THEN Res("get_serial", FALSE, "Failed to get serial number")
             ELSE IF outcome = "utf16" THEN Res("get_serial", FALSE, "Failed to decode serial number")
             ELSE [Res("get_serial", TRUE, "none") EXCEPT !.serial = "BS000001-1.0"]]

\* Mutant of drop: a Session without a Drop implementation.
drop_releases_nothing(d, ok) == <<>>

\* Drop for BlinkStick: interface 0 is released, the outcome is ignored.
drop(d, ok) == <<Call("release_interface", d, <<0>>, ok)>>

\* What the device holds as report 1 after the calls: the last report 1 it
\* accepted.
RECURSIVE device_report1(_, _)
device_report1(calls, held) ==
    IF calls = <<>> THEN held
    ELSE device_report1(Tail(calls),
            IF Head(calls).call = "write_control" /\ Head(calls).ok
               /\ Head(calls).data[1] = REPORT_ID_1
            THEN Head(calls).data ELSE held)

----------------------------------------------------------------------------
(* Inputs                                                                  *)

DeviceKinds ==
    {Device(BLINKSTICK_VENDOR_ID, BLINKSTICK_PRODUCT_ID, TRUE),
     Device(BLINKSTICK_VENDOR_ID, 1, TRUE),
     Device(4660, BLINKSTICK_PRODUCT_ID, TRUE),
     Device(0, 0, FALSE)}

Buses == UNION {[1..n -> DeviceKinds] : n \in 0..MaxDevices}

Tokens ==
    {<<"r", "e", "d">>, <<"O", "f", "f">>,
     <<"#", "F", "F", "8", "0", "0", "0">>,
     <<"r", "a", "n", "d", "o", "m">>, <<"z", "z">>}

RandomColors == {RgbColor(1, 2, 3), RgbColor(255, 255, 255)}
Indices == {0, 1, 255}
Durations == {7, 1000}
ContextOutcomes == {"ok", "context_new", "devices"}
OpenFailures ==
    {"none", "open", "kernel_driver_active", "detach_kernel_driver",
     "set_active_configuration", "claim_interface"}
SerialOutcomes == {"ok", "transfer", "short", "utf16"}

Cmd(name, token, index, duration, steps) ==
    [name |-> name, color |-> token, index |-> index,
     duration |-> duration, steps |-> steps]

Commands ==
    {Cmd("SetColor", t, x, 0, 0) : t \in Tokens, x \in Indices}
    \cup {Cmd("Pulse", t, 0, d, n) : t \in Tokens, d \in Durations, n \in 0..MaxSteps}
    \cup {Cmd("List", <<>>, 0, 0, 0), Cmd("Info", <<>>, 0, 0, 0),
          Cmd("Off", <<>>, 0, 0, 0)}

----------------------------------------------------------------------------
(* The command line client (main.rs 83-166)                                *)

Init ==
    /\ bus \in Buses
    /\ cmd \in Commands
    /\ pc = "start"
    /\ session = NoSession
    /\ log = <<>>
    /\ issued = <<>>
    /\ result = NoResult
    /\ exit = "running"
    /\ color = RgbColor(0, 0, 0)
    /\ devices = <<>>
    /\ i = 0
    /\ serial = "-"
    /\ report1 = <<REPORT_ID_1, 0, 0, 0>>
    /\ hex_in = <<>>
    /\ hex_out = None

\* The position after find_first has returned a Session.
AfterFindFirst ==
    IF cmd.name \in {"SetColor", "Pulse"} THEN "parse"
    ELSE IF cmd.name = "Info" THEN "info_serial"
    ELSE "off"

\* A library operation has issued `calls`: they reach the log and the device.
Issue(calls) ==
    /\ log' = log \o calls
    /\ issued' = calls
    /\ report1' = device_report1(calls, report1)

\* A statement of main fails with `?`: main returns the error. The Session,
\* if main owns one, is dropped on the way out.
Fail ==
    /\ exit' = "error"
    /\ pc' = IF session.state = "live" THEN "drop" ELSE "done"

\* let blinkstick = BlinkStick::find_first()?;
FindFirst ==
    /\ pc = "start"
    /\ cmd.name \in {"SetColor", "Pulse", "Info", "Off"}
    /\ \E ctx \in ContextOutcomes, kda \in BOOLEAN, fail \in OpenFailures :
         LET r == find_first(bus, ctx, kda, fail)
         IN  /\ Issue(r.calls)
             /\ result' = r.res
             /\ IF r.res.ok
                THEN /\ session' = [dev |-> r.res.dev, state |-> "live"]
                     /\ pc' = AfterFindFirst
                     /\ exit' = exit
                ELSE /\ session' = session
                     /\ Fail
    /\ UNCHANGED <<bus, cmd, color, devices, i, serial, hex_in, hex_out>>

\* let color = parse_color(&color)?;
ParseColor ==
    /\ pc = "parse"
    /\ \E rnd \in RandomColors :
         LET r == parse_color(cmd.color, rnd)
         IN  /\ result' = Res("parse_color", r.ok, IF r.ok THEN "none" ELSE "Invalid color")
             /\ color' = r.val
             /\ IF r.ok
                THEN /\ pc' = IF cmd.name = "SetColor" THEN "set" ELSE "pulse"
                     /\ exit' = exit
                ELSE Fail
    /\ Issue(<<>>)
    /\ UNCHANGED <<bus, cmd, session, devices, i, serial, hex_in, hex_out>>

\* SetColor: index 0 goes to set_color, any other to set_color_indexed.
MainSetColor ==
    /\ pc = "set"
    /\ \E ok \in BOOLEAN :
         LET r == IF cmd.index = 0
                  THEN send("set_color", session.dev, set_color_data(color), ok)
                  ELSE send("set_color_indexed", session.dev,
                            set_color_indexed_data(cmd.index, color), ok)
         IN  /\ Issue(r.calls)
             /\ result' = r.res
             /\ IF r.res.ok THEN pc' = "drop" /\ exit' = exit ELSE Fail
    /\ UNCHANGED <<bus, cmd, session, color, devices, i, serial, hex_in, hex_out>>

\* Off: blinkstick.set_color(&RgbColor::new(0, 0, 0))?;
MainOff ==
    /\ pc = "off"
    /\ \E ok \in BOOLEAN :
         LET r == send("set_color", session.dev, set_color_data(RgbColor(0, 0, 0)), ok)
         IN  /\ Issue(r.calls)
             /\ result' = r.res
             /\ IF r.res.ok THEN pc' = "drop" /\ exit' = exit ELSE Fail
    /\ UNCHANGED <<bus, cmd, session, color, devices, i, serial, hex_in, hex_out>>

\* let serial = blinkstick.get_serial().unwrap_or_else(|_| "Unknown".to_string());
\* (Info and List). An error of get_serial is replaced by "Unknown" and
\* main goes on.
MainSerial ==
    /\ pc \in {"info_serial", "list_serial"}
    /\ \E outcome \in SerialOutcomes :
         LET r == get_serial(session.dev, outcome)
         IN  /\ Issue(r.calls)
             /\ result' = r.res
             /\ serial' = IF r.res.ok THEN r.res.serial ELSE "Unknown"
    /\ pc' = IF pc = "info_serial" THEN "info_color" ELSE "drop"
    /\ UNCHANGED <<bus, cmd, session, exit, color, devices, i, hex_in, hex_out>>

\* Info: let color = blinkstick.get_color()?;
MainInfoColor ==
    /\ pc = "info_color"
    /\ \E ok \in BOOLEAN :
         LET r == get_color(session.dev, report1, ok)
         IN  /\ Issue(r.calls)
             /\ result' = r.res
             /\ color' = r.res.color
             /\ IF r.res.ok THEN pc' = "drop" /\ exit' = exit ELSE Fail
    /\ UNCHANGED <<bus, cmd, session, devices, i, serial, hex_in, hex_out>>

\* List: let devices = blinkstick::find_blinksticks()?; with no device the
\* command ends at once, with success.
MainListFind ==
    /\ pc = "start"
    /\ cmd.name = "List"
    /\ \E ctx \in ContextOutcomes :
         LET r == find_all(bus, ctx)
         IN  /\ Issue(r.calls)
             /\ result' = r.res
             /\ IF ~r.res.ok THEN Fail /\ UNCHANGED <<devices, i>>
                ELSE IF r.res.devs = <<>>
                THEN pc' = "done" /\ exit' = "ok" /\ devices' = <<>> /\ i' = i
                ELSE pc' = "list_open" /\ exit' = exit /\ devices' = r.res.devs /\ i' = 1
    /\ UNCHANGED <<bus, cmd, session, color, serial, hex_in, hex_out>>

\* List: let blinkstick = BlinkStick::open(device.clone())?; for device i.
MainListOpen ==
    /\ pc = "list_open"
    /\ \E kda \in BOOLEAN, fail \in OpenFailures :
         LET r == open(devices[i], kda, fail)
         IN  /\ Issue(r.calls)
             /\ result' = r.res
             /\ IF r.res.ok
                THEN /\ session' = [dev |-> r.res.dev, state |-> "live"]
                     /\ pc' = "list_serial"
                     /\ exit' = exit
                ELSE /\ session' = session
                     /\ Fail
    /\ UNCHANGED <<bus, cmd, color, devices, i, serial, hex_in, hex_out>>

----------------------------------------------------------------------------
(* Effect engine: pulse (lib.rs 319-347), one action per loop iteration    *)

\* Mutant of step_delay: the duration shared out over both loops.
step_delay_over_both_loops(duration_ms, steps) == duration_ms \div (2 * steps)

step_delay(duration_ms, steps) == duration_ms \div steps

\* Entry of pulse: step_delay is computed. With steps = 0 the division
\* panics, and the panic unwinds main, dropping the Session.
PulseBegin ==
    /\ pc = "pulse"
    /\ IF cmd.steps = 0
       THEN /\ result' = Res("pulse", FALSE, "panic: attempt to divide by zero")
            /\ exit' = "panic"
            /\ pc' = "drop"
       ELSE /\ result' = Res("pulse", TRUE, "running")
            /\ exit' = exit
            /\ pc' = "fade_in"
    /\ i' = 0
    /\ Issue(<<>>)
    /\ UNCHANGED <<bus, cmd, session, color, devices, serial, hex_in, hex_out>>

\* One iteration of a loop of pulse: set_color of the faded color, and the
\* sleep when the transfer went through.
PulseStep(fade_color, ok) ==
    LET r == send("pulse", session.dev, set_color_data(fade_color), ok)
        nap == Call("sleep", 0, <<step_delay(cmd.duration, cmd.steps)>>, TRUE)
    IN  IF ok
        THEN /\ Issue(Append(r.calls, nap))
             /\ exit' = exit
             /\ IF i + 1 < cmd.steps
                THEN i' = i + 1 /\ pc' = pc /\ result' = result
                ELSE /\ i' = 0
                     /\ pc' = IF pc = "fade_in" THEN "fade_out" ELSE "drop"
                     /\ result' = IF pc = "fade_in" THEN result
                                  ELSE Res("pulse", TRUE, "none")
        ELSE /\ Issue(r.calls)
             /\ result' = r.res
             /\ i' = i
             /\ Fail

PulseFadeIn ==
    /\ pc = "fade_in"
    /\ \E ok \in BOOLEAN : PulseStep(fade_in_color(color, i, cmd.steps), ok)
    /\ UNCHANGED <<bus, cmd, session, color, devices, serial, hex_in, hex_out>>

PulseFadeOut ==
    /\ pc = "fade_out"
    /\ \E ok \in BOOLEAN : PulseStep(fade_out_color(color, i, cmd.steps), ok)
    /\ UNCHANGED <<bus, cmd, session, color, devices, serial, hex_in, hex_out>>

----------------------------------------------------------------------------
(* Scope exit: the Session is dropped when its owner's scope ends: the end *)
(* of main (by return, by `?` or by a panic unwinding it), or the end of   *)
(* an iteration of the loop of List.                                       *)

Drop ==
    /\ pc = "drop"
    /\ \E ok \in BOOLEAN : Issue(drop(session.dev, ok))
    /\ session' = [session EXCEPT !.state = "released"]
    /\ IF cmd.name = "List" /\ exit = "running" /\ i < Len(devices)
       THEN pc' = "list_open" /\ i' = i + 1 /\ exit' = exit
       ELSE pc' = "done" /\ i' = i /\ exit' = IF exit = "running" THEN "ok" ELSE exit
    /\ UNCHANGED <<bus, cmd, result, color, devices, serial, hex_in, hex_out>>

Next ==
    \/ FindFirst
    \/ ParseColor
    \/ MainSetColor
    \/ MainOff
    \/ MainSerial
    \/ MainInfoColor
    \/ MainListFind
    \/ MainListOpen
    \/ PulseBegin
    \/ PulseFadeIn
    \/ PulseFadeOut
    \/ Drop

Spec == Init /\ [][Next]_vars

----------------------------------------------------------------------------
(* A client of the library: it holds a Session that open has returned,     *)
(* makes up to MaxOps calls on it and lets it go out of scope. `cmd` is    *)
(* the call being made.                                                    *)

ApiColors == {RgbColor(1, 2, 3), RgbColor(255, 128, 0)}
Channels == {0, 1}

\* The list of n LEDs that alternates the two colors, starting with `first`.
led_list(n, first, second) ==
    [k \in 1..n |-> IF k % 2 = 1 THEN first ELSE second]

\* The alternating lists of at most MaxLeds LEDs, and the lists whose length
\* is at the edge of the count byte.
LedLists ==
    {led_list(n, c1, c2) : n \in 0..MaxLeds, c1 \in ApiColors, c2 \in ApiColors}
    \cup {led_list(n, RgbColor(1, 2, 3), RgbColor(255, 128, 0)) : n \in {U8 - 1, U8}}

ApiCall(name, channel, index, c, leds) ==
    [name |-> name, channel |-> channel, index |-> index, color |-> c, leds |-> leds]

InitApi ==
    /\ bus = <<Device(BLINKSTICK_VENDOR_ID, BLINKSTICK_PRODUCT_ID, TRUE)>>
    /\ cmd = ApiCall("open", 0, 0, RgbColor(0, 0, 0), <<>>)
    /\ pc = "api"
    /\ session = [dev |-> 1, state |-> "live"]
    /\ log = open(1, FALSE, "none").calls
    /\ issued = open(1, FALSE, "none").calls
    /\ result = open(1, FALSE, "none").res
    /\ exit = "running"
    /\ color = RgbColor(0, 0, 0)
    /\ devices = <<>>
    /\ i = 0
    /\ serial = "-"
    /\ report1 = <<REPORT_ID_1, 0, 0, 0>>
    /\ hex_in = <<>>
    /\ hex_out = None

\* The call `c` returns r; the client goes on or ends its scope.
ApiReturn(c, r) ==
    /\ pc = "api"
    /\ cmd' = c
    /\ Issue(r.calls)
    /\ result' = r.res
    /\ i' = i + 1
    /\ \E last \in BOOLEAN : pc' = IF last \/ i + 1 >= MaxOps THEN "drop" ELSE "api"
    /\ UNCHANGED <<bus, session, exit, color, devices, serial, hex_in, hex_out>>

ApiSetColor ==
    \E c \in ApiColors, ok \in BOOLEAN :
        ApiReturn(ApiCall("set_color", 0, 0, c, <<>>),
                  send("set_color", session.dev, set_color_data(c), ok))

ApiSetColorIndexed ==
    \E index \in Indices, c \in ApiColors, ok \in BOOLEAN :
        ApiReturn(ApiCall("set_color_indexed", 0, index, c, <<>>),
                  send("set_color_indexed", session.dev,
                       set_color_indexed_data(index, c), ok))

ApiSetColors ==
    \E channel \in Channels, leds \in LedLists, ok \in BOOLEAN :
        ApiReturn(ApiCall("set_colors", channel, 0, RgbColor(0, 0, 0), leds),
                  send("set_colors", session.dev, set_colors_data(channel, leds), ok))

ApiGetColor ==
    \E ok \in BOOLEAN :
        ApiReturn(ApiCall("get_color", 0, 0, RgbColor(0, 0, 0), <<>>),
                  get_color(session.dev, report1, ok))

NextApi ==
    \/ ApiSetColor
    \/ ApiSetColorIndexed
    \/ ApiSetColors
    \/ ApiGetColor
    \/ Drop

SpecApi == InitApi /\ [][NextApi]_vars

----------------------------------------------------------------------------
(* from_hex on its own: every string over HexChars of at most MaxHexLen    *)
(* characters.                                                             *)

HexChars == {"#", "+", "8", "F", "g"}
HexStrings == UNION {[1..n -> HexChars] : n \in 0..MaxHexLen}

InitHex ==
    /\ bus = <<>>
    /\ cmd = Cmd("from_hex", <<>>, 0, 0, 0)
    /\ pc = "from_hex"
    /\ session = NoSession
    /\ log = <<>>
    /\ issued = <<>>
    /\ result = NoResult
    /\ exit = "running"
    /\ color = RgbColor(0, 0, 0)
    /\ devices = <<>>
    /\ i = 0
    /\ serial = "-"
    /\ report1 = <<REPORT_ID_1, 0, 0, 0>>
    /\ hex_in \in HexStrings
    /\ hex_out = None

FromHex ==
    /\ pc = "from_hex"
    /\ hex_out' = from_hex(hex_in)
    /\ pc' = "done"
    /\ UNCHANGED <<bus, cmd, session, log, issued, result, exit, color, devices,
                   i, serial, report1, hex_in>>

NextHex == FromHex

SpecHex == InitHex /\ [][NextHex]_vars

----------------------------------------------------------------------------
(* Claims                                                                  *)

IsTransfer(c) == c.call \in {"write_control", "read_control", "read_descriptor"}
Transfers(calls) == {k \in 1..Len(calls) : IsTransfer(calls[k])}
ClaimedBefore(k, d) ==
    Cardinality({j \in 1..(k - 1) :
        log[j].call = "claim_interface" /\ log[j].ok /\ log[j].dev = d})
ReleasedBefore(k, d) ==
    Cardinality({j \in 1..(k - 1) :
        log[j].call = "release_interface" /\ log[j].dev = d})

\* The library call `name` of the library client has just returned.
Returned(name) == cmd.name = name /\ pc \in {"api", "drop"}

\* C1: pulse called with steps = 0 returns the error InvalidEffectParameters
\* (it does not panic on the division) and issues no control transfer.
C1_PulseZeroStepsIsAnError ==
    (cmd.name = "Pulse" /\ cmd.steps = 0 /\ result.op = "pulse")
        => /\ ~result.ok
           /\ result.err = "InvalidEffectParameters"
           /\ exit # "panic"
           /\ Transfers(log) = {}

\* C2: get_color inverts set_color: when the device answers GET_REPORT 1
\* with the 4 bytes the last set_color(c) sent, get_color returns c.
C2_GetColorInvertsSetColor ==
    (Returned("get_color") /\ result.ok)
        => \A c \in ApiColors :
              (\E k \in 1..Len(log) :
                  /\ log[k].call = "write_control" /\ log[k].ok
                  /\ report1 = log[k].data /\ log[k].data = set_color_data(c))
                => result.color = c

\* C3: claim and release of interface 0 are paired. Every release follows a
\* successful claim of the same device that has not been released yet; when
\* the process has ended, on any path, every successful claim has had its
\* release; an open that fails issues no release; and every transfer is
\* issued between a successful claim and its release.
C3_ClaimReleasePaired ==
    /\ \A k \in 1..Len(log) :
          /\ log[k].call = "release_interface"
                => ClaimedBefore(k, log[k].dev) = ReleasedBefore(k, log[k].dev) + 1
          /\ IsTransfer(log[k])
                => ClaimedBefore(k, log[k].dev) = ReleasedBefore(k, log[k].dev) + 1
    /\ pc = "done"
          => \A d \in 1..Len(bus) :
                ClaimedBefore(Len(log) + 1, d) = ReleasedBefore(Len(log) + 1, d)
    /\ (result.op \in {"open", "find_first"} /\ ~result.ok)
          => \A k \in 1..Len(issued) : issued[k].call # "release_interface"

\* C3 witness: the CLI ended with an error on an invalid color token after
\* find_first had claimed the interface, and the interface was released.
C3_Witness ==
    /\ pc = "done" /\ exit = "error"
    /\ result.op = "parse_color" /\ ~result.ok
    /\ ClaimedBefore(Len(log) + 1, 1) = 1
    /\ log[Len(log)].call = "release_interface"

OpenStepOf(c) ==
    IF c.call = "open" THEN "open"
    ELSE IF c.call \in {"kernel_driver_active", "detach_kernel_driver"} THEN "detach"
    ELSE IF c.call = "set_active_configuration" THEN "configuration"
    ELSE IF c.call = "claim_interface" THEN "claim"
    ELSE "other"
OpenWasAttempted ==
    /\ result.op \in {"open", "find_first"}
    /\ \E k \in 1..Len(issued) : issued[k].call = "open"

\* C4: when open fails, the error kind tells the step that failed, and the
\* kinds of the steps differ: the device open gives OpenDeviceError, the
\* detaching of the kernel driver (its query included) the USB stack's own
\* error, set-configuration SetConfigurationError, and claim-interface
\* ClaimInterfaceError.
C4_OpenErrorNamesTheStep ==
    (OpenWasAttempted /\ ~result.ok)
        => LET failed == issued[Len(issued)]
           IN  /\ ~failed.ok
               /\ \A k \in 1..(Len(issued) - 1) : issued[k].ok
               /\ (OpenStepOf(failed) = "open") <=> (result.err = "OpenDeviceError")
               /\ (OpenStepOf(failed) = "detach") <=> (result.err = "rusb::Error")
               /\ (OpenStepOf(failed) = "configuration")
                      <=> (result.err = "SetConfigurationError")
               /\ (OpenStepOf(failed) = "claim") <=> (result.err = "ClaimInterfaceError")
               /\ OpenStepOf(failed) # "other"

\* C4 witness: open failed at claim_interface, after the earlier steps
\* succeeded, and reported ClaimInterfaceError.
C4_Witness ==
    /\ OpenWasAttempted /\ ~result.ok
    /\ issued[Len(issued)].call = "claim_interface"
    /\ result.err = "ClaimInterfaceError"

IsHexDigit(c) ==
    c \in {"0", "1", "2", "3", "4", "5", "6", "7", "8", "9",
           "a", "b", "c", "d", "e", "f", "A", "B", "C", "D", "E", "F"}
SixHexDigits(t) == Len(t) = 6 /\ \A k \in 1..6 : IsHexDigit(t[k])
WellFormedHex(t) ==
    \/ SixHexDigits(t)
    \/ t # <<>> /\ Head(t) = "#" /\ SixHexDigits(Tail(t))

\* C5: from_hex returns a color exactly for an optional single leading '#'
\* followed by exactly 6 hexadecimal digits, and no value for anything else.
C5_FromHexAcceptsOnlySixDigits ==
    pc = "done" => (hex_out.some <=> WellFormedHex(hex_in))

\* C6: set_colors with N >= 2 LEDs issues exactly one report 3 transfer,
\* [3, channel, 0, count, r1, g1, b1, ..., rN, gN, bN], of 4 + 3 * N bytes,
\* whose count byte is N; a list too long for the count byte is never sent
\* with another count.
C6_SetColorsCountIsN ==
    (Returned("set_colors") /\ Len(cmd.leds) >= 2)
        => /\ Len(issued) = 1
           /\ issued[1].call = "write_control"
           /\ LET data == issued[1].data
                  N == Len(cmd.leds)
              IN  /\ Len(data) = 4 + 3 * N
                  /\ data[1] = 3 /\ data[2] = cmd.channel /\ data[3] = 0
                  /\ data[4] = N
                  /\ \A k \in 1..N :
                        /\ data[4 + 3 * (k - 1) + 1] = cmd.leds[k].r
                        /\ data[4 + 3 * (k - 1) + 2] = cmd.leds[k].g
                        /\ data[4 + 3 * (k - 1) + 3] = cmd.leds[k].b

\* C7: set_colors with an empty list issues no transfer and succeeds,
\* whatever the device would have answered.
C7_SetColorsEmptyIsNoOp ==
    (Returned("set_colors") /\ cmd.leds = <<>>)
        => /\ issued = <<>>
           /\ result.op = "set_colors" /\ result.ok

\* C7 witness: an empty set_colors returned on a Session whose previous
\* transfer had failed.
C7_Witness ==
    /\ Returned("set_colors") /\ cmd.leds = <<>> /\ result.ok
    /\ log # <<>> /\ log[Len(log)].call = "write_control" /\ ~log[Len(log)].ok

SingleLedTransfer(c) ==
    /\ Len(issued) = 1
    /\ issued[1].call = "write_control"
    /\ issued[1].data = <<1, c.r, c.g, c.b>>
    /\ issued[1].ok = result.ok

\* C8: set_colors with exactly one LED c issues the transfer of
\* set_color(c): one report 1, [1, R, G, B], and no report 3.
C8_SetColorsOneLedIsSetColor ==
    /\ (Returned("set_colors") /\ Len(cmd.leds) = 1) => SingleLedTransfer(cmd.leds[1])
    /\ Returned("set_color") => SingleLedTransfer(cmd.color)

\* C8 witness: set_colors(1, [c]) sent [1, 1, 2, 3].
C8_Witness ==
    /\ Returned("set_colors") /\ cmd.channel = 1
    /\ cmd.leds = <<RgbColor(1, 2, 3)>>
    /\ issued[1].data = <<1, 1, 2, 3>> /\ result.ok

\* First(S): the least element of a nonempty set of numbers.
First(S) == CHOOSE k \in S : \A j \in S : k <= j
Matching == {k \in 1..Len(bus) : bus[k].vendor_id = 8352 /\ bus[k].product_id = 16869}
Enumerated ==
    /\ Len(issued) >= 2
    /\ issued[1].call = "context_new" /\ issued[1].ok
    /\ issued[2].call = "devices" /\ issued[2].ok
    /\ \A k \in 1..Len(bus) : bus[k].descriptor
OpenCalls == {k \in 1..Len(issued) : issued[k].call = "open"}

\* C9: with the enumeration succeeding and every descriptor read, find_first
\* fails with NoDeviceFound, attempting no open, exactly when no device has
\* vendor id 0x20A0 and product id 0x41E5; otherwise it opens the first such
\* device in enumeration order and no other. find_all returns the matching
\* devices in enumeration order, and the empty list, not an error, when
\* there is none.
C9_FindFirstOpensFirstMatch ==
    /\ (result.op = "find_first" /\ Enumerated)
          => /\ (~result.ok /\ result.err = "NoDeviceFound") <=> (Matching = {})
             /\ Matching = {} => OpenCalls = {}
             /\ Matching # {}
                   => /\ Cardinality(OpenCalls) = 1
                      /\ \A k \in 1..Len(issued) :
                            k >= First(OpenCalls) => issued[k].dev = First(Matching)
                      /\ result.ok => session.dev = First(Matching)
    /\ (result.op = "find_all" /\ Enumerated)
          => /\ result.ok
             /\ {result.devs[k] : k \in 1..Len(result.devs)} = Matching
             /\ \A j, k \in 1..Len(result.devs) : j < k => result.devs[j] < result.devs[k]
             /\ Matching = {} => result.devs = <<>>

\* C9 witness: find_first returned a Session on the second device, the
\* first one having the vendor id but another product id.
C9_Witness ==
    /\ result.op = "find_first" /\ result.ok /\ Enumerated
    /\ Len(bus) = 2 /\ bus[1].vendor_id = 8352 /\ bus[1].product_id # 16869
    /\ session.dev = 2 /\ session.state = "live"

\* C10: no report 2 transfer carries index 0. set_color_indexed with index 0
\* sends the 4-byte report [1, R, G, B]; with an index >= 1 it sends one
\* 5-byte report whose first byte is 2 and whose second byte is the index.
C10_NoReport2ForIndex0 ==
    /\ \A k \in 1..Len(log) :
          (log[k].call = "write_control" /\ log[k].data[1] = 2)
              => Len(log[k].data) = 5 /\ log[k].data[2] >= 1
    /\ Returned("set_color_indexed")
          => /\ Len(issued) = 1
             /\ issued[1].call = "write_control"
             /\ IF cmd.index = 0
                THEN issued[1].data = <<1, cmd.color.r, cmd.color.g, cmd.color.b>>
                ELSE /\ Len(issued[1].data) = 5
                     /\ issued[1].data[1] = 2
                     /\ issued[1].data[2] = cmd.index

\* C10 witness: set_color_indexed(0, c) sent report 1.
C10_Witness ==
    /\ Returned("set_color_indexed") /\ cmd.index = 0
    /\ issued[1].data = <<1, 255, 128, 0>>

----------------------------------------------------------------------------
(* C11: which failures are suppressed                                      *)

\* The calls of the USB stack that failed, the release of the interface
\* set aside.
FailedCalls(calls) ==
    {k \in 1..Len(calls) : ~calls[k].ok /\ calls[k].call # "release_interface"}

\* C11: the only suppressed error is a failed release of interface 0 at
\* teardown. Every other failing USB operation makes the library operation
\* that issued it return an error, and the CLI command that ran it ends
\* with an error instead of going on with a substitute result.
C11_OnlyReleaseFailureIsSuppressed ==
    /\ FailedCalls(issued) # {} => ~result.ok
    /\ (pc = "done" /\ FailedCalls(log) # {}) => exit = "error"

\* C11, the serial-number read set aside: every ended command in which a
\* call other than the release of the interface and the serial-number read
\* failed has ended with an error.
C11_ButForTheSerialNumber ==
    /\ FailedCalls(issued) # {} => ~result.ok
    /\ (pc = "done" /\ \E k \in FailedCalls(log) : log[k].call # "read_descriptor")
          => exit = "error"

----------------------------------------------------------------------------
(* C12: the order of the steps of open                                     *)

\* The calls of the open that has just returned, from its device open on.
OpenSteps == SubSeq(issued, First(OpenCalls), Len(issued))
\* The steps open has to go through: the detach only after the query has
\* answered that a kernel driver is active.
OpenOrder ==
    IF Len(OpenSteps) >= 2 /\ OpenSteps[2].ok /\ OpenSteps[2].data = <<1>>
    THEN <<"open", "kernel_driver_active", "detach_kernel_driver",
           "set_active_configuration", "claim_interface">>
    ELSE <<"open", "kernel_driver_active",
           "set_active_configuration", "claim_interface">>

\* C12: open issues its USB steps in a fixed order: open device, detach the
\* kernel driver (only if one is active), set configuration 1, claim
\* interface 0. The first step that fails aborts open: no later step is
\* issued and no Session is returned. A Session is returned only after the
\* claim has succeeded.
C12_OpenStepsInOrder ==
    /\ OpenWasAttempted
          => /\ Len(OpenSteps) <= Len(OpenOrder)
             /\ \A k \in 1..Len(OpenSteps) :
                   /\ OpenSteps[k].call = OpenOrder[k]
                   /\ OpenSteps[k].dev = OpenSteps[1].dev
                   /\ OpenSteps[k].call = "set_active_configuration"
                         => OpenSteps[k].data = <<1>>
                   /\ OpenSteps[k].call = "claim_interface"
                         => OpenSteps[k].data = <<0>>
                   /\ k < Len(OpenSteps) => OpenSteps[k].ok
             /\ Len(OpenSteps) < Len(OpenOrder) => ~OpenSteps[Len(OpenSteps)].ok
             /\ result.ok <=> /\ Len(OpenSteps) = Len(OpenOrder)
                              /\ OpenSteps[Len(OpenSteps)].ok
             /\ result.ok <=> session.state = "live"
             /\ result.ok => session.dev = OpenSteps[1].dev
    /\ session.state = "live"
          => \E k \in 1..Len(log) :
                /\ log[k].call = "claim_interface" /\ log[k].ok
                /\ log[k].dev = session.dev

\* C12 witness: open returned a Session after detaching an active kernel
\* driver, all five calls having been issued.
C12_Witness ==
    /\ OpenWasAttempted /\ result.ok /\ session.state = "live"
    /\ Len(OpenSteps) = 5
    /\ OpenSteps[3].call = "detach_kernel_driver"
    /\ OpenSteps[5].call = "claim_interface" /\ OpenSteps[5].ok

\* C12 witness of the abort: the set-configuration step failed after the
\* detach, and open issued no claim and returned no Session.
C12_WitnessAbort ==
    /\ OpenWasAttempted /\ ~result.ok /\ session.state = "none"
    /\ Len(OpenSteps) = 4
    /\ OpenSteps[4].call = "set_active_configuration" /\ ~OpenSteps[4].ok

----------------------------------------------------------------------------
(* C13, C14: the transfers and sleeps of pulse                             *)

\* What a Pulse command leaves in the log besides find_first and the drop:
\* the transfers and sleeps of pulse, in the order of their issue.
IsPulseCall(c) == c.call \in {"write_control", "sleep"}
PulseLog == SelectSeq(log, IsPulseCall)
PulseWrites == {k \in 1..Len(PulseLog) : PulseLog[k].call = "write_control"}
PulseReturnedOk == result.op = "pulse" /\ result.ok /\ result.err = "none"
PulseReturnedErr == result.op = "pulse" /\ ~result.ok

\* C13: for steps >= 1, a pulse whose transfers all succeed issues exactly
\* 2 * steps transfers of report 1, each followed by one sleep of
\* duration_ms / steps milliseconds (integer division) before the next
\* transfer. If the k-th transfer fails, pulse returns that error at once,
\* having issued exactly k transfers: no retry, no further transfer or sleep.
C13_PulseTransfersAndSleeps ==
    (cmd.name = "Pulse" /\ cmd.steps >= 1)
       => /\ \A k \in 1..Len(PulseLog) :
                IF k % 2 = 1
                THEN /\ PulseLog[k].call = "write_control"
                     /\ Len(PulseLog[k].data) = 4
                     /\ PulseLog[k].data[1] = 1
                     /\ ~PulseLog[k].ok => k = Len(PulseLog)
                ELSE /\ PulseLog[k].call = "sleep"
                     /\ Len(PulseLog[k].data) = 1
                     /\ PulseLog[k].data[1] * cmd.steps <= cmd.duration
                     /\ cmd.duration < (PulseLog[k].data[1] + 1) * cmd.steps
          /\ Cardinality(PulseWrites) <= 2 * cmd.steps
          /\ PulseReturnedOk
                => /\ Cardinality(PulseWrites) = 2 * cmd.steps
                   /\ Len(PulseLog) = 4 * cmd.steps
                   /\ \A k \in 1..Len(PulseLog) : PulseLog[k].ok
          /\ PulseReturnedErr
                => /\ Len(PulseLog) = 2 * Cardinality(PulseWrites) - 1
                   /\ ~PulseLog[Len(PulseLog)].ok
                   /\ result.err = "ControlTransferError"
                   /\ exit = "error"
          /\ (PulseLog # <<>> /\ ~PulseLog[Len(PulseLog)].ok)
                => PulseReturnedErr /\ pc \in {"drop", "done"}

\* C13 witness: pulse(color, 1000, 3) returned Ok after 6 transfers, each
\* followed by a sleep of 333 ms.
C13_Witness ==
    /\ cmd.name = "Pulse" /\ cmd.steps = 3 /\ cmd.duration = 1000
    /\ PulseReturnedOk
    /\ Cardinality(PulseWrites) = 6
    /\ \A k \in 1..Len(PulseLog) : k % 2 = 0 => PulseLog[k].data = <<333>>

\* C13 witness of the abort: the 4th of the 6 transfers of a pulse failed,
\* and pulse returned after 4 transfers and 3 sleeps.
C13_WitnessAbort ==
    /\ cmd.name = "Pulse" /\ cmd.steps = 3
    /\ PulseReturnedErr /\ pc = "done"
    /\ Cardinality(PulseWrites) = 4 /\ Len(PulseLog) = 7

\* The colors a Pulse command has sent, in the order of their transfers.
IsReportWrite(c) == c.call = "write_control"
PulseSent == SelectSeq(log, IsReportWrite)
Sent(k) == RgbColor(PulseSent[k].data[2], PulseSent[k].data[3], PulseSent[k].data[4])
Black == RgbColor(0, 0, 0)
\* n is c / steps truncated, or one less.
NearQuotient(n, c, steps) == n >= 0 /\ n \in {c \div steps, (c \div steps) - 1}

C14_WitnessBlack ==
    /\ cmd.name = "Pulse" /\ PulseReturnedOk
    /\ color = Black /\ Sent(1) = color

====
